---- MODULE Spec2Model ----
(***************************************************************************)
(* Model of the census refinement script (code/refine_data.py) and of the  *)
(* label/count helpers of the analysis layer (code/data_analysis.py).      *)
(*                                                                         *)
(* A DataFrame is a record                                                 *)
(*    [columns : set of column names,                                      *)
(*     dtypes  : column name -> "int64" | "float64" | "object",            *)
(*     recs    : sequence of [index, ord, row]]                            *)
(* where index is the pandas index label of the row, row maps each column  *)
(* to a cell, and ord is the line of the input file the row was read from  *)
(* (a ghost field: it travels with the row and is never read by the        *)
(* program; the properties use it to tell rows apart).                     *)
(* A cell is NaN (missing) or holds one integer code.                      *)
(***************************************************************************)
EXTENDS Integers, Sequences, FiniteSets, TLC

\* ------------------------------------------------------------------ bounds
\* Longest input table (number of data rows of the CSV file).
MaxRows == 3

\* --------------------------------------------------------------- cells
NaN == {}
Cell(v) == {v}
Num(c) == CHOOSE v \in c : TRUE
isna(c) == c = NaN
notna(c) == c # NaN

\* The identifier values and the codes that occur in the input tables.
\* SEX holds an admissible and an inadmissible code, AGE an admissible one;
\* either may be missing.
IdValues == {1, 2, 3}
SexCodes == {1, 3}
AgeCodes == {1}
IdCells == {Cell(v) : v \in IdValues}
SexCells == {NaN} \cup {Cell(v) : v \in SexCodes}
AgeCells == {NaN} \cup {Cell(v) : v \in AgeCodes}
CellsOf(c) == IF c = "SerialNum" THEN IdCells
              ELSE IF c = "SEX" THEN SexCells ELSE AgeCells

\* ------------------------------------------------------- input documents
id_col == "SerialNum"
AllColumns == {"SerialNum", "SEX", "AGE"}

\* Rows of a CSV file with the given header.
RowsOver(cols) ==
    {r \in [cols -> IdCells \cup SexCells \cup AgeCells] :
        \A c \in cols : r[c] \in CellsOf(c)}

SeqsUpTo(S, n) == UNION {[1..k -> S] : k \in 0..n}

\* The JSON data dictionaries: column name -> (code string -> label).
SexMap == [k \in {"1", "2"} |-> IF k = "1" THEN "Male" ELSE "Female"]
AgeMap == [k \in {"1", "2"} |-> IF k = "1" THEN "Child" ELSE "Adult"]
DictFull == [c \in {"SEX", "AGE"} |-> IF c = "SEX" THEN SexMap ELSE AgeMap]
DictSex == [c \in {"SEX"} |-> SexMap]
Dictionaries == {DictFull, DictSex}

\* The order in which data_dict.items() yields the columns (JSON key order).
DictOrder == <<"SEX", "AGE">>

\* Input files: full tables of up to MaxRows rows, and short tables whose
\* header lacks a column.
CsvFiles ==
    {[columns |-> AllColumns, rows |-> rs] : rs \in SeqsUpTo(RowsOver(AllColumns), MaxRows)}
    \cup
    UNION {{[columns |-> cols, rows |-> rs] : rs \in SeqsUpTo(RowsOver(cols), 1)} :
              cols \in {{"SerialNum", "SEX"}, {"SEX", "AGE"}}}

\* ------------------------------------------------------------ DataFrames
EmptyFrame(cols) ==
    [columns |-> cols, dtypes |-> [c \in cols |-> "object"], recs |-> <<>>]

\* pd.read_csv: a numeric column with no missing value is int64; one missing
\* value makes the whole column float64; a column of no rows is object.
InferDtype(rows, c) ==
    IF Len(rows) = 0 THEN "object"
    ELSE IF \E i \in 1..Len(rows) : isna(rows[i][c]) THEN "float64"
    ELSE "int64"

read_csv(file) ==
    [columns |-> file.columns,
     dtypes  |-> [c \in file.columns |-> InferDtype(file.rows, c)],
     recs    |-> [i \in 1..Len(file.rows) |->
                    [index |-> i - 1, ord |-> i, row |-> file.rows[i]]]]

\* str(value) of one element of a column: astype(str) and str(code).
\* An int64 1 is "1", a float64 1.0 is "1.0", a missing value is "nan".
Str(dtype, c) ==
    IF isna(c) THEN "nan"
    ELSE IF dtype = "float64" THEN ToString(Num(c)) \o ".0"
    ELSE ToString(Num(c))

Ords(recs) == {recs[i].ord : i \in 1..Len(recs)}

\* reset_index(drop=True): positional labels from zero.
reset_index(recs) == [i \in 1..Len(recs) |-> [recs[i] EXCEPT !.index = i - 1]]

\* df.drop(index=labels)
RECURSIVE drop(_, _)
drop(recs, labels) ==
    IF recs = <<>> THEN <<>>
    ELSE IF Head(recs).index \in labels THEN drop(Tail(recs), labels)
    ELSE <<Head(recs)>> \o drop(Tail(recs), labels)

\* sorted(labels)
RECURSIVE sorted(_)
sorted(S) ==
    IF S = {} THEN <<>>
    ELSE LET m == CHOOSE x \in S : \A y \in S : x <= y
         IN <<m>> \o sorted(S \ {m})

\* df.loc[labels]: the rows with these labels, in the order of the labels.
loc(recs, labels) ==
    [k \in 1..Len(labels) |->
        recs[CHOOSE i \in 1..Len(recs) : recs[i].index = labels[k]]]

\* ------------------------------------------------------------------ refine
\* The schema columns the table lacks.
missing_cols(df, dd) == {col \in DOMAIN dd : col \notin df.columns}

\* A plausible slip: keep='last'.
RECURSIVE drop_duplicates_keep_last(_, _)
drop_duplicates_keep_last(recs, col) ==
    IF recs = <<>> THEN <<>>
    ELSE LET n == Len(recs)
             front == SubSeq(recs, 1, n - 1)
             v == recs[n].row[col]
             rest == SelectSeq(front, LAMBDA r : r.row[col] # v)
         IN drop_duplicates_keep_last(rest, col) \o <<recs[n]>>

\* df.drop_duplicates(subset=[col], keep='first'): one pass in row order
\* that drops every row whose identifier has been seen. Labels are kept.
RECURSIVE dup_scan(_, _, _)
dup_scan(recs, col, seen) ==
    IF recs = <<>> THEN <<>>
    ELSE LET v == Head(recs).row[col]
         IN IF v \in seen THEN dup_scan(Tail(recs), col, seen)
            ELSE <<Head(recs)>> \o dup_scan(Tail(recs), col, seen \cup {v})

drop_duplicates(recs, col) == dup_scan(recs, col, {})

\* A plausible slip: the missing-value check left out.
null_violations_none(df, col) == {}

\* df[df[col].isna()].index
null_violations(df, col) ==
    {df.recs[i].index : i \in {j \in 1..Len(df.recs) : isna(df.recs[j].row[col])}}

\* The non-null rows whose string form is not a key of the code map.  The
\* non-null subset keeps the dtype of the column it was cut from.
violations(df, col, admissible_values_map) ==
    {df.recs[i].index : i \in {j \in 1..Len(df.recs) :
        /\ notna(df.recs[j].row[col])
        /\ Str(df.dtypes[col], df.recs[j].row[col]) \notin DOMAIN admissible_values_map}}

\* The loop over data_dict.items(), from the k-th item on.
RECURSIVE scan(_, _, _, _)
scan(df, dd, k, broken) ==
    IF k > Len(DictOrder) THEN broken
    ELSE IF DictOrder[k] \notin DOMAIN dd THEN scan(df, dd, k + 1, broken)
    ELSE LET col == DictOrder[k]
         IN scan(df, dd, k + 1,
                 broken \cup null_violations(df, col) \cup violations(df, col, dd[col]))

\* A plausible slip: the refined frame drops only the lowest broken label.
refined_of_drop_one(df, broken) ==
    IF broken # {}
    THEN [df EXCEPT !.recs = reset_index(drop(df.recs, {sorted(broken)[1]}))]
    ELSE df

refined_of(df, broken) ==
    IF broken # {}
    THEN [df EXCEPT !.recs = reset_index(drop(df.recs, broken))]
    ELSE df

\* A plausible slip: the .loc selection left out of the removed frame.
removed_of_whole(df, broken) ==
    IF broken # {}
    THEN [df EXCEPT !.recs = reset_index(df.recs)]
    ELSE EmptyFrame(df.columns)

removed_of(df, broken) ==
    IF broken # {}
    THEN [df EXCEPT !.recs = reset_index(loc(df.recs, sorted(broken)))]
    ELSE EmptyFrame(df.columns)

\* A plausible slip: the rows are validated before the duplicates go.
refine_validate_first(df_in, dd) ==
    IF missing_cols(df_in, dd) # {} \/ id_col \notin df_in.columns
    THEN [raised |-> "SystemExit", df |-> df_in, broken |-> {},
          refined |-> EmptyFrame({}), removed |-> EmptyFrame({})]
    ELSE LET broken == scan(df_in, dd, 1, {})
             kept == [df_in EXCEPT
                        !.recs = drop_duplicates(drop(df_in.recs, broken), id_col)]
         IN [raised |-> "", df |-> kept, broken |-> broken,
             refined |-> [kept EXCEPT !.recs = reset_index(kept.recs)],
             removed |-> removed_of(df_in, broken)]

\* refine(df_raw, data_dict): what it raises ("" when it returns), the
\* local df after deduplication, the broken labels, and the two frames.
refine(df_in, dd) ==
    IF missing_cols(df_in, dd) # {}
    THEN [raised |-> "SystemExit", df |-> df_in, broken |-> {},
          refined |-> EmptyFrame({}), removed |-> EmptyFrame({})]
    ELSE IF id_col \notin df_in.columns
    THEN [raised |-> "KeyError", df |-> df_in, broken |-> {},
          refined |-> EmptyFrame({}), removed |-> EmptyFrame({})]
    ELSE LET d == [df_in EXCEPT !.recs = drop_duplicates(df_in.recs, id_col)]
             broken == scan(d, dd, 1, {})
         IN [raised |-> "", df |-> d, broken |-> broken,
             refined |-> refined_of(d, broken),
             removed |-> removed_of(d, broken)]

\* -------------------------------------------------------------------- main
\* The state of a run of main, then of a call of the analysis layer: the
\* frame and the dictionary it is given, the function called and its result.
VARIABLES pc, input_file, dictionary_file, raw_df, data_dict, df,
          broken_records_indices, refined_df, removed_df, output_file,
          removed_file, exit_code, again,
          a_df, a_dict, a_call, a_args, a_result

avars == <<a_df, a_dict, a_call, a_args, a_result>>

vars == <<pc, input_file, dictionary_file, raw_df, data_dict, df,
          broken_records_indices, refined_df, removed_df, output_file,
          removed_file, exit_code, again, avars>>

\* A file that does not exist is <<>>; a written one is <<contents>>.
NoFile == <<>>
\* df.to_csv(path, index=False): the header and the rows, without labels.
to_csv(frame) ==
    <<[columns |-> frame.columns,
       rows |-> [i \in 1..Len(frame.recs) |-> frame.recs[i].row]]>>

NoResult == [raised |-> "none", df |-> EmptyFrame({}), broken |-> {},
             refined |-> EmptyFrame({}), removed |-> EmptyFrame({})]

\* A plausible slip: the handler of main logs the exception and returns.
ExitStatusSwallowed(raised) ==
    IF raised = "SystemExit" THEN 1 ELSE 0

\* The status the process ends with: sys.exit(1) of refine passes the
\* "except Exception" of main (SystemExit is no Exception) and ends the
\* process with 1; any Exception is logged and turned into sys.exit(1);
\* falling off the end of main is 0.
ExitStatus(raised) ==
    IF raised = "" THEN 0 ELSE 1

Init ==
    /\ pc = "start"
    /\ input_file \in CsvFiles
    /\ dictionary_file \in Dictionaries
    /\ raw_df = EmptyFrame({})
    /\ data_dict = <<>>
    /\ df = EmptyFrame({})
    /\ broken_records_indices = {}
    /\ refined_df = EmptyFrame({})
    /\ removed_df = EmptyFrame({})
    /\ output_file = NoFile
    /\ removed_file = NoFile
    /\ exit_code = <<>>
    /\ again = NoResult
    /\ a_df = EmptyFrame({})
    /\ a_dict = <<>>
    /\ a_call = "none"
    /\ a_args = <<>>
    /\ a_result = <<>>

\* load_data and load_dictionary both return.
Load ==
    /\ pc = "start"
    /\ UNCHANGED avars
    /\ raw_df' = read_csv(input_file)
    /\ data_dict' = dictionary_file
    /\ pc' = "loaded"
    /\ UNCHANGED <<input_file, dictionary_file, df, broken_records_indices,
                   refined_df, removed_df, output_file, removed_file,
                   exit_code, again>>

\* One of the two files is missing or unreadable: the loader logs and
\* re-raises, main logs and exits.
LoadFail ==
    /\ pc = "start"
    /\ UNCHANGED avars
    /\ pc' = "exited"
    /\ exit_code' = <<ExitStatus("FileNotFoundError")>>
    /\ UNCHANGED <<input_file, dictionary_file, raw_df, data_dict, df,
                   broken_records_indices, refined_df, removed_df,
                   output_file, removed_file, again>>

\* refined_df, removed_df = refine(raw_df, data_dict)
Refine ==
    /\ pc = "loaded"
    /\ UNCHANGED avars
    /\ LET r == refine(raw_df, data_dict)
       IN IF r.raised = ""
          THEN /\ df' = r.df
               /\ broken_records_indices' = r.broken
               /\ refined_df' = r.refined
               /\ removed_df' = r.removed
               /\ pc' = "refined"
               /\ UNCHANGED exit_code
          ELSE /\ pc' = "exited"
               /\ exit_code' = <<ExitStatus(r.raised)>>
               /\ UNCHANGED <<df, broken_records_indices, refined_df, removed_df>>
    /\ UNCHANGED <<input_file, dictionary_file, raw_df, data_dict,
                   output_file, removed_file, again>>

\* save_refined_data: the file is written; the re-read that follows only
\* logs.
SaveRefined ==
    /\ pc = "refined"
    /\ UNCHANGED avars
    /\ output_file' = to_csv(refined_df)
    /\ pc' = "saved"
    /\ UNCHANGED <<input_file, dictionary_file, raw_df, data_dict, df,
                   broken_records_indices, refined_df, removed_df,
                   removed_file, exit_code, again>>

\* to_csv raises (the path cannot be written): main logs and exits.
SaveRefinedFail ==
    /\ pc = "refined"
    /\ UNCHANGED avars
    /\ pc' = "exited"
    /\ exit_code' = <<ExitStatus("OSError")>>
    /\ UNCHANGED <<input_file, dictionary_file, raw_df, data_dict, df,
                   broken_records_indices, refined_df, removed_df,
                   output_file, removed_file, again>>

\* --removed-output given: save_removed_records writes the frame unless it
\* is empty, and main ends.
SaveRemoved ==
    /\ pc = "saved"
    /\ UNCHANGED avars
    /\ removed_file' = IF removed_df.recs = <<>> THEN removed_file
                       ELSE to_csv(removed_df)
    /\ pc' = "exited"
    /\ exit_code' = <<ExitStatus("")>>
    /\ UNCHANGED <<input_file, dictionary_file, raw_df, data_dict, df,
                   broken_records_indices, refined_df, removed_df,
                   output_file, again>>

\* --removed-output not given, or the write of the removed records raised
\* (save_removed_records logs it and returns): main ends.
Finish ==
    /\ pc = "saved"
    /\ UNCHANGED avars
    /\ pc' = "exited"
    /\ exit_code' = <<ExitStatus("")>>
    /\ UNCHANGED <<input_file, dictionary_file, raw_df, data_dict, df,
                   broken_records_indices, refined_df, removed_df,
                   output_file, removed_file, again>>

Next ==
    \/ Load
    \/ LoadFail
    \/ Refine
    \/ SaveRefined
    \/ SaveRefinedFail
    \/ SaveRemoved
    \/ Finish

Spec == Init /\ [][Next]_vars

\* The refiner applied to its own refined output, same schema.
RefineAgain ==
    /\ pc = "refined"
    /\ UNCHANGED avars
    /\ again' = refine(refined_df, data_dict)
    /\ pc' = "refined_again"
    /\ UNCHANGED <<input_file, dictionary_file, raw_df, data_dict, df,
                   broken_records_indices, refined_df, removed_df,
                   output_file, removed_file, exit_code>>

NextTwice ==
    \/ Load
    \/ Refine
    \/ RefineAgain

SpecTwice == Init /\ [][NextTwice]_vars

\* ------------------------------------------------- properties of refine
\* refine has returned to main (its results are in refined_df, removed_df).
Returned == pc \in {"refined", "saved", "refined_again"}

SchemaCols == DOMAIN data_dict

\* Positions of the rows that are the first of their identifier.
FirstOcc(recs) ==
    {i \in 1..Len(recs) :
        \A j \in 1..(i - 1) : recs[j].row[id_col] # recs[i].row[id_col]}

IdsOf(recs) == {recs[i].row[id_col] : i \in 1..Len(recs)}

\* The canonical written form of the code in a cell ("1" for the code 1).
CodeText(c) == ToString(Num(c))

\* The row is missing a value of a schema column.
HasNull(row) == \E c \in SchemaCols : isna(row[c])

\* Every schema column of the row holds a code that is a key of its map.
AllAdmissible(row) ==
    \A c \in SchemaCols : notna(row[c]) /\ CodeText(row[c]) \in DOMAIN data_dict[c]

\* Some schema column holds a value whose string-coerced form is no key.
HasInadmissible(frame, row) ==
    \E c \in SchemaCols :
        notna(row[c]) /\ Str(frame.dtypes[c], row[c]) \notin DOMAIN data_dict[c]

\* C1: when refine returns, the refined and the rejected rows together are
\* exactly the rows left after deduplication, each once: the two counts add
\* up to the number of deduplicated rows and no row is in both frames.
C1_Partition ==
    Returned =>
        /\ Len(refined_df.recs) + Len(removed_df.recs)
              = Cardinality(FirstOcc(raw_df.recs))
        /\ Ords(refined_df.recs) \cap Ords(removed_df.recs) = {}
        /\ Ords(refined_df.recs) \cup Ords(removed_df.recs) = FirstOcc(raw_df.recs)
        /\ Cardinality(Ords(refined_df.recs)) = Len(refined_df.recs)
        /\ Cardinality(Ords(removed_df.recs)) = Len(removed_df.recs)

C1_Witness ==
    /\ Returned
    /\ Len(refined_df.recs) > 0
    /\ Len(removed_df.recs) > 0
    /\ Len(df.recs) < Len(raw_df.recs)

\* C2 (as claimed): a deduplicated row whose schema columns all hold a key
\* of their code map is refined, and one with a value whose string form is
\* no key is rejected.
C2_AdmissibleRetained ==
    Returned =>
        \A k \in 1..Len(df.recs) :
            /\ AllAdmissible(df.recs[k].row)
                  => df.recs[k].ord \in Ords(refined_df.recs)
            /\ HasInadmissible(df, df.recs[k].row)
                  => df.recs[k].ord \in Ords(removed_df.recs)

\* C3 (as claimed): every input row with a missing value in a schema column
\* is in the rejected frame.
C3_EveryNullRowRejected ==
    Returned =>
        \A i \in 1..Len(raw_df.recs) :
            HasNull(raw_df.recs[i].row) => raw_df.recs[i].ord \in Ords(removed_df.recs)

\* C3 (amended): every input row kept by deduplication with a missing value
\* in any schema column is in the rejected frame and not in the refined
\* frame, whatever its other columns hold and whichever schema column the
\* missing value is in; the scan goes through every schema column, so the
\* broken labels are those of all kept rows with a missing or an
\* inadmissible value in any of them.
C3_KeptNullRowRejected ==
    Returned =>
        /\ \A i \in FirstOcc(raw_df.recs) :
              HasNull(raw_df.recs[i].row) =>
                  /\ raw_df.recs[i].ord \in Ords(removed_df.recs)
                  /\ raw_df.recs[i].ord \notin Ords(refined_df.recs)
        /\ broken_records_indices =
              {raw_df.recs[i].index : i \in {j \in FirstOcc(raw_df.recs) :
                  \/ HasNull(raw_df.recs[j].row)
                  \/ HasInadmissible(raw_df, raw_df.recs[j].row)}}

\* Two kept rows, one missing its SEX only and one missing its AGE only
\* (the later schema column), both rejected.
C3_Witness ==
    /\ Returned
    /\ SchemaCols = {"SEX", "AGE"}
    /\ \E i, j \in FirstOcc(raw_df.recs) :
          /\ isna(raw_df.recs[i].row["SEX"]) /\ raw_df.recs[i].row["AGE"] = Cell(1)
          /\ isna(raw_df.recs[j].row["AGE"]) /\ raw_df.recs[j].row["SEX"] = Cell(1)
          /\ {i, j} \subseteq Ords(removed_df.recs)

\* C4: the frame after deduplication holds exactly the first row of each
\* identifier, unchanged and under its own label, in the original order.
C4_DedupStable ==
    Returned =>
        /\ Ords(df.recs) = FirstOcc(raw_df.recs)
        /\ \A k \in 1..Len(df.recs) : df.recs[k] = raw_df.recs[df.recs[k].ord]
        /\ \A k, l \in 1..Len(df.recs) : k < l => df.recs[k].ord < df.recs[l].ord

\* Identifiers A, A, B where the two A rows differ in another column.
C4_Witness ==
    /\ Returned
    /\ Len(raw_df.recs) = 3
    /\ raw_df.recs[1].row[id_col] = raw_df.recs[2].row[id_col]
    /\ raw_df.recs[1].row[id_col] # raw_df.recs[3].row[id_col]
    /\ raw_df.recs[1].row["SEX"] # raw_df.recs[2].row["SEX"]
    /\ Ords(df.recs) = {1, 3}

\* C5: refine applied to its own refined output returns that output
\* unchanged and an empty rejected frame: no duplicate removed, no label
\* broken.
C5_FixedPoint ==
    pc = "refined_again" =>
        /\ again.raised = ""
        /\ again.refined = refined_df
        /\ again.removed.recs = <<>>
        /\ again.df = refined_df
        /\ again.broken = {}

C5_Witness ==
    /\ pc = "refined_again"
    /\ Len(refined_df.recs) > 1
    /\ Len(removed_df.recs) > 0

\* The schema names a column the input table lacks.
MissingInInput == \E c \in DOMAIN dictionary_file : c \notin input_file.columns

NoResults ==
    /\ df = EmptyFrame({})
    /\ broken_records_indices = {}
    /\ refined_df = EmptyFrame({})
    /\ removed_df = EmptyFrame({})

\* C6: with a schema column missing from the input the run never gets past
\* refine: no frame is produced, no file is written and the process ends
\* with status 1; and a run that ends with status 0 has written the
\* refined frame that refine returned.
C6_MissingColumnAborts ==
    /\ MissingInInput =>
          /\ NoResults
          /\ output_file = NoFile
          /\ removed_file = NoFile
          /\ pc \in {"start", "loaded", "exited"}
          /\ pc = "exited" => exit_code = <<1>>
    /\ output_file # NoFile =>
          /\ pc \in {"saved", "exited"}
          /\ output_file = to_csv(refined_df)
          /\ refined_df = refine(raw_df, data_dict).refined
    /\ exit_code = <<0>> => pc = "exited" /\ output_file # NoFile
    /\ pc = "exited" <=> exit_code # <<>>

C6_Witness ==
    /\ MissingInInput
    /\ raw_df = read_csv(input_file)
    /\ Len(raw_df.recs) > 0
    /\ pc = "exited"
    /\ exit_code = <<1>>

\* The row violates the schema as the scan sees it.
Violates(frame, row) == HasNull(row) \/ HasInadmissible(frame, row)

\* C10: duplicates go before validation and by identifier alone: a later
\* row of an identifier is in neither frame, even if it is valid and the
\* first row of that identifier is not; the first row then is rejected and
\* the identifier is absent from the refined frame; no identifier occurs
\* twice across the two frames.
C10_DedupBeforeValidation ==
    Returned =>
        /\ \A j \in 1..Len(raw_df.recs) :
              j \notin FirstOcc(raw_df.recs) =>
                  j \notin Ords(refined_df.recs) \cup Ords(removed_df.recs)
        /\ \A i \in FirstOcc(raw_df.recs) :
              Violates(raw_df, raw_df.recs[i].row) =>
                  /\ i \in Ords(removed_df.recs)
                  /\ raw_df.recs[i].row[id_col] \notin IdsOf(refined_df.recs)
        /\ IdsOf(refined_df.recs) \cap IdsOf(removed_df.recs) = {}
        /\ Cardinality(IdsOf(refined_df.recs)) = Len(refined_df.recs)
        /\ Cardinality(IdsOf(removed_df.recs)) = Len(removed_df.recs)

\* A first row with an inadmissible code, then a fully valid row with the
\* same identifier.
C10_Witness ==
    /\ Returned
    /\ SchemaCols = {"SEX", "AGE"}
    /\ \E i, j \in 1..Len(raw_df.recs) :
          /\ i < j
          /\ i \in FirstOcc(raw_df.recs)
          /\ raw_df.recs[i].row[id_col] = raw_df.recs[j].row[id_col]
          /\ raw_df.recs[i].row["SEX"] = Cell(3)
          /\ AllAdmissible(raw_df.recs[j].row)
          /\ raw_df.dtypes["SEX"] = "int64" /\ raw_df.dtypes["AGE"] = "int64"
          /\ i \in Ords(removed_df.recs)
          /\ j \notin Ords(refined_df.recs) \cup Ords(removed_df.recs)

\* ---------------------------------------------------------- analysis layer
\* The tables the analysis layer is run on: SEX and AGE codes, some of
\* them missing, some of them absent from the dictionary.
AnalysisSexCells == {NaN} \cup {Cell(v) : v \in {1, 2, 3}}
AnalysisAgeCells == {NaN} \cup {Cell(v) : v \in {1, 2}}
AnalysisRows ==
    {r \in [{"SEX", "AGE"} -> AnalysisSexCells] :
        r["AGE"] \in AnalysisAgeCells}
AnalysisFiles ==
    {[columns |-> {"SEX", "AGE"}, rows |-> rs] : rs \in SeqsUpTo(AnalysisRows, MaxRows)}

\* A dictionary that gives two AGE codes one label.
DictMerged ==
    [c \in {"SEX", "AGE"} |->
        IF c = "SEX" THEN SexMap ELSE [k \in {"1", "2"} |-> "Young"]]
AnalysisDicts == {DictFull, DictSex, DictMerged}

\* data_dict.get(column_name, {})
mapping_from_dict(column_name, dd) ==
    IF column_name \in DOMAIN dd THEN dd[column_name] ELSE <<>>

\* The distinct non-missing codes of a column and how often each occurs.
CodesIn(recs, col) ==
    {Num(recs[i].row[col]) : i \in {j \in 1..Len(recs) : notna(recs[j].row[col])}}
CountOf(recs, col, code) ==
    Cardinality({i \in 1..Len(recs) : recs[i].row[col] = Cell(code)})
FirstAt(recs, col, code) ==
    CHOOSE i \in 1..Len(recs) :
        /\ recs[i].row[col] = Cell(code)
        /\ \A j \in 1..(i - 1) : recs[j].row[col] # Cell(code)

\* Series.value_counts(): one entry per distinct non-missing value, the
\* most frequent first (equal counts in order of first appearance).
RECURSIVE by_frequency(_, _, _)
by_frequency(recs, col, left) ==
    IF left = {} THEN <<>>
    ELSE LET top == CHOOSE c \in left : \A d \in left :
                        \/ CountOf(recs, col, c) > CountOf(recs, col, d)
                        \/ /\ CountOf(recs, col, c) = CountOf(recs, col, d)
                           /\ FirstAt(recs, col, c) <= FirstAt(recs, col, d)
         IN <<[code |-> top, count |-> CountOf(recs, col, top)]>>
                \o by_frequency(recs, col, left \ {top})

value_counts(recs, col) == by_frequency(recs, col, CodesIn(recs, col))

\* A plausible slip: .sort_index() left out.
sort_index_omitted(series) == series

\* Series.sort_index(): the entries by ascending code.
RECURSIVE sort_index(_)
sort_index(series) ==
    IF series = <<>> THEN <<>>
    ELSE LET k == CHOOSE i \in 1..Len(series) :
                    \A j \in 1..Len(series) : series[i].code <= series[j].code
         IN <<series[k]>>
                \o sort_index(SubSeq(series, 1, k - 1) \o SubSeq(series, k + 1, Len(series)))

\* code_mapping.get(code_str, f"Code {code_str}")
label_or_fallback(code_mapping, code_str) ==
    IF code_str \in DOMAIN code_mapping THEN code_mapping[code_str]
    ELSE "Code " \o code_str

get_labels_and_counts(frame, column_name, code_mapping) ==
    LET counts == sort_index(value_counts(frame.recs, column_name))
    IN [labels |-> [i \in 1..Len(counts) |->
                      label_or_fallback(code_mapping,
                          Str(frame.dtypes[column_name], Cell(counts[i].code)))],
        counts_list |-> [i \in 1..Len(counts) |-> counts[i].count]]

\* Series.map(dict) and Index.map(dict) of one string: the label, or a
\* missing value when the string is no key.  A label is held in a cell.
map_label(code_mapping, code_str) ==
    IF code_str \in DOMAIN code_mapping THEN Cell(code_mapping[code_str]) ELSE NaN

\* df[col].astype(str).map(mapping), row by row.
mapped_column(frame, col, mapping) ==
    [i \in 1..Len(frame.recs) |->
        map_label(mapping, Str(frame.dtypes[col], frame.recs[i].row[col]))]

\* groupby(['Col1', 'Col2']).size(): the label pairs that occur, with their
\* number of rows; a row with a missing label is in no group.
group_sizes(col1_labels, col2_labels) ==
    LET n == Len(col1_labels)
        keys == {<<Num(col1_labels[i]), Num(col2_labels[i])>> :
                    i \in {j \in 1..n : notna(col1_labels[j]) /\ notna(col2_labels[j])}}
    IN [k \in keys |->
          Cardinality({i \in 1..n :
              col1_labels[i] = Cell(k[1]) /\ col2_labels[i] = Cell(k[2])})]

\* .unstack(fill_value=...): a table over the first and the second labels
\* of the groups; a pair that is no group holds the fill value.
unstack(sizes, fill_value) ==
    LET idx == {k[1] : k \in DOMAIN sizes}
        cols == {k[2] : k \in DOMAIN sizes}
    IN [index |-> idx, columns |-> cols,
        cell |-> [k \in idx \X cols |->
                    IF k \in DOMAIN sizes THEN Cell(sizes[k]) ELSE fill_value]]

\* A plausible slip: fill_value=0 left out.
crosstab_groupby_unfilled(frame, col1, col2, dd) ==
    LET t == unstack(group_sizes(
                 mapped_column(frame, col1, mapping_from_dict(col1, dd)),
                 mapped_column(frame, col2, mapping_from_dict(col2, dd))), NaN)
    IN [index |-> t.index, columns |-> t.columns, cell |-> t.cell,
        index_name |-> col1, columns_name |-> col2]

crosstab_groupby(frame, col1, col2, dd) ==
    LET map1 == mapping_from_dict(col1, dd)
        map2 == mapping_from_dict(col2, dd)
        t == unstack(group_sizes(mapped_column(frame, col1, map1),
                                 mapped_column(frame, col2, map2)), Cell(0))
    IN [index |-> t.index, columns |-> t.columns, cell |-> t.cell,
        index_name |-> col1, columns_name |-> col2]

\* df[df[filter_col].astype(str).isin(filter_codes)]
filter_rows(frame, filter_col, filter_codes) ==
    [frame EXCEPT !.recs =
        SelectSeq(frame.recs,
            LAMBDA r : Str(frame.dtypes[filter_col], r.row[filter_col]) \in filter_codes)]

\* pandas_filtering up to the table it plots and prints: the counts of the
\* filtered rows by ascending code, the index mapped through the dictionary.
pandas_filtering(frame, filter_col, filter_codes, groupby_col, dd) ==
    LET df_filtered == filter_rows(frame, filter_col, filter_codes)
        group_map == mapping_from_dict(groupby_col, dd)
        distribution_counts == sort_index(value_counts(df_filtered.recs, groupby_col))
    IN [i \in 1..Len(distribution_counts) |->
          [label |-> map_label(group_map,
                        Str(df_filtered.dtypes[groupby_col],
                            Cell(distribution_counts[i].code))),
           count |-> distribution_counts[i].count]]

InitAnalysis ==
    /\ pc = "analysis"
    /\ input_file = [columns |-> {}, rows |-> <<>>]
    /\ dictionary_file = <<>>
    /\ raw_df = EmptyFrame({})
    /\ data_dict = <<>>
    /\ df = EmptyFrame({})
    /\ broken_records_indices = {}
    /\ refined_df = EmptyFrame({})
    /\ removed_df = EmptyFrame({})
    /\ output_file = NoFile
    /\ removed_file = NoFile
    /\ exit_code = <<>>
    /\ again = NoResult
    /\ a_df \in {read_csv(f) : f \in AnalysisFiles}
    /\ a_dict \in AnalysisDicts
    /\ a_call = "none"
    /\ a_args = <<>>
    /\ a_result = <<>>

rvars == <<pc, input_file, dictionary_file, raw_df, data_dict, df,
           broken_records_indices, refined_df, removed_df, output_file,
           removed_file, exit_code, again>>

\* bar_chart and pie_chart: the labels and counts of one column.
CallGetLabelsAndCounts ==
    /\ a_call = "none"
    /\ \E column_name \in {"SEX", "AGE"} :
          /\ a_args' = <<column_name>>
          /\ a_result' = get_labels_and_counts(a_df, column_name,
                              mapping_from_dict(column_name, a_dict))
    /\ a_call' = "get_labels_and_counts"
    /\ UNCHANGED <<rvars, a_df, a_dict>>

CallCrosstabGroupby ==
    /\ a_call = "none"
    /\ \E col1 \in {"SEX", "AGE"} :
          LET col2 == IF col1 = "SEX" THEN "AGE" ELSE "SEX"
          IN /\ a_args' = <<col1, col2>>
             /\ a_result' = crosstab_groupby(a_df, col1, col2, a_dict)
    /\ a_call' = "crosstab_groupby"
    /\ UNCHANGED <<rvars, a_df, a_dict>>

CallPandasFiltering ==
    /\ a_call = "none"
    /\ \E filter_col \in {"SEX", "AGE"}, filter_codes \in {{"1"}, {"1", "2"}} :
          LET groupby_col == IF filter_col = "SEX" THEN "AGE" ELSE "SEX"
          IN /\ a_args' = <<filter_col, filter_codes, groupby_col>>
             /\ a_result' = pandas_filtering(a_df, filter_col, filter_codes,
                                             groupby_col, a_dict)
    /\ a_call' = "pandas_filtering"
    /\ UNCHANGED <<rvars, a_df, a_dict>>

NextAnalysis ==
    \/ CallGetLabelsAndCounts
    \/ CallCrosstabGroupby
    \/ CallPandasFiltering

SpecAnalysis == InitAnalysis /\ [][NextAnalysis]_vars

\* ---------------------------------------- properties of the analysis layer
RowsWith(col, code) == {i \in 1..Len(a_df.recs) : a_df.recs[i].row[col] = Cell(code)}

\* The codes a column holds, missing values apart.
Distinct(col) == {c \in 1..3 : RowsWith(col, c) # {}}

\* The place of a code among the codes of its column, ascending.
Rank(col, c) == 1 + Cardinality({d \in Distinct(col) : d < c})

\* C7: get_labels_and_counts returns two sequences of one length, one entry
\* per distinct (non-missing) code of the column, by ascending code: the
\* count of the rows that hold the code, and the dictionary label of the
\* code's string form, or "Code <string form>" when that is no key.
C7_LabelsAndCounts ==
    a_call = "get_labels_and_counts" =>
        LET col == a_args[1]
            mapping == mapping_from_dict(col, a_dict)
            text(c) == Str(a_df.dtypes[col], Cell(c))
        IN /\ Len(a_result.labels) = Cardinality(Distinct(col))
           /\ Len(a_result.counts_list) = Cardinality(Distinct(col))
           /\ \A c \in Distinct(col) :
                 /\ a_result.counts_list[Rank(col, c)] = Cardinality(RowsWith(col, c))
                 /\ a_result.labels[Rank(col, c)] =
                       IF text(c) \in DOMAIN mapping THEN mapping[text(c)]
                       ELSE "Code " \o text(c)

\* Code 2 twice and code 1 once: Male comes first, by code, not by count
\* and not by label.
C7_Witness ==
    /\ a_call = "get_labels_and_counts"
    /\ a_args = <<"SEX">>
    /\ Len(a_df.recs) = 3
    /\ a_df.recs[1].row["SEX"] = Cell(2)
    /\ a_result.labels = <<"Male", "Female">>
    /\ a_result.counts_list = <<1, 2>>

\* C8 (as claimed): the table of pandas_filtering is get_labels_and_counts
\* of the filtered rows: as many entries, the same counts, the same labels.
C8_FilteringIsLabelCounting ==
    a_call = "pandas_filtering" =>
        LET g == get_labels_and_counts(filter_rows(a_df, a_args[1], a_args[2]),
                     a_args[3], mapping_from_dict(a_args[3], a_dict))
        IN /\ Len(a_result) = Len(g.labels)
           /\ \A i \in 1..Len(a_result) :
                 /\ a_result[i].count = g.counts_list[i]
                 /\ a_result[i].label = Cell(g.labels[i])

\* The label a row has for a column of the cross-tabulation, in a cell;
\* NaN when the string form of its code is no key of the column's map.
LabelCell(col, i) ==
    LET m == mapping_from_dict(col, a_dict)
        t == Str(a_df.dtypes[col], a_df.recs[i].row[col])
    IN IF t \in DOMAIN m THEN Cell(m[t]) ELSE NaN

\* C9: the table of crosstab_groupby has a row for each first label and a
\* column for each second label of the rows that have both labels, every
\* cell holds the number of rows with that pair of labels, 0 when there is
\* none, and a row without a label for either column is counted nowhere.
C9_Crosstab ==
    a_call = "crosstab_groupby" =>
        LET col1 == a_args[1]
            col2 == a_args[2]
            n == Len(a_df.recs)
            both == {i \in 1..n : notna(LabelCell(col1, i)) /\ notna(LabelCell(col2, i))}
        IN /\ a_result.index = {Num(LabelCell(col1, i)) : i \in both}
           /\ a_result.columns = {Num(LabelCell(col2, i)) : i \in both}
           /\ DOMAIN a_result.cell = a_result.index \X a_result.columns
           /\ \A r \in a_result.index, c \in a_result.columns :
                 a_result.cell[<<r, c>>] =
                    Cell(Cardinality({i \in 1..n :
                        LabelCell(col1, i) = Cell(r) /\ LabelCell(col2, i) = Cell(c)}))
           /\ a_result.index_name = col1
           /\ a_result.columns_name = col2

\* Two label pairs that leave a third pair unobserved, and a row whose SEX
\* code is not in the dictionary.
C9_Witness ==
    /\ a_call = "crosstab_groupby"
    /\ a_args = <<"SEX", "AGE">>
    /\ a_result.index = {"Male", "Female"}
    /\ a_result.columns = {"Child", "Adult"}
    /\ a_result.cell[<<"Male", "Adult">>] = Cell(0)
    /\ a_result.cell[<<"Male", "Child">>] = Cell(1)
    /\ \E i \in 1..Len(a_df.recs) : a_df.recs[i].row["SEX"] = Cell(3)

====
